---- MODULE Spec2Model ----
(***************************************************************************)
(* Model of scripts/flatpak-node-generator.py: the transformation of a     *)
(* package-lock.json document into a list of Flatpak file sources.         *)
(*                                                                         *)
(* Strings are sequences of one-character strings, so that startswith,     *)
(* slicing, replace, split and the base64 / hex conversions are computed   *)
(* the way the Python code computes them.  A JSON mapping is the sequence  *)
(* of its (key, value) pairs in document order (Python dicts iterate in    *)
(* insertion order); an optional key is a has... flag next to its value.   *)
(***************************************************************************)
EXTENDS Integers, Sequences, FiniteSets

\* ------------------------------------------------------------------ bounds
\* Largest number of entries of a flat-form 'packages' mapping.
MaxEntries == 2
\* Largest number of records (at all depths together) of a tree-form
\* 'dependencies' mapping.
MaxNodes == 3

\* ------------------------------------------------------- program constants
\* len('sha512-'): the slice integrity[7:]
TagLen == 7
\* len('node_modules/'): the slice name[13:]
PrefixLen == 13
\* size in bytes of a SHA-512 digest (hashlib.sha512)
DigestLen == 64

\* ------------------------------------------------------------ string tools
Sha512Tag == <<"s", "h", "a", "5", "1", "2", "-">>
NodeModulesPrefix ==
    <<"n", "o", "d", "e", "_", "m", "o", "d", "u", "l", "e", "s", "/">>
NpmCache == <<"n", "p", "m", "-", "c", "a", "c", "h", "e", "/">>

\* str.startswith
StartsWith(s, p) == Len(s) >= Len(p) /\ SubSeq(s, 1, Len(p)) = p

\* s[n:]
DropFirst(s, n) == SubSeq(s, n + 1, Len(s))

\* str.replace(c, '') for a one-character c
Remove(s, c) == SelectSeq(s, LAMBDA x : x # c)

\* str.replace(c, d) for one-character c and d
Substitute(s, c, d) == [i \in 1..Len(s) |-> IF s[i] = c THEN d ELSE s[i]]

\* str.ljust(width, c)
Ljust(s, width, c) ==
    IF width <= Len(s) THEN s
    ELSE s \o [i \in 1..(width - Len(s)) |-> c]

\* str.find over a set of characters, from position `from` (1-based);
\* 0 when there is none
Find(s, cs, from) ==
    LET hits == {i \in from..Len(s) : s[i] \in cs}
    IN IF hits = {} THEN 0 ELSE CHOOSE i \in hits : \A j \in hits : i <= j

\* s.split('/')[-1]
LastSegment(s) ==
    LET slashes == {i \in 1..Len(s) : s[i] = "/"}
    IN IF slashes = {} THEN s
       ELSE DropFirst(s, CHOOSE i \in slashes : \A j \in slashes : j <= i)

\* ------------------------------------------------------------------ base64
B64Alphabet ==
    <<"A", "B", "C", "D", "E", "F", "G", "H", "I", "J", "K", "L", "M",
      "N", "O", "P", "Q", "R", "S", "T", "U", "V", "W", "X", "Y", "Z",
      "a", "b", "c", "d", "e", "f", "g", "h", "i", "j", "k", "l", "m",
      "n", "o", "p", "q", "r", "s", "t", "u", "v", "w", "x", "y", "z",
      "0", "1", "2", "3", "4", "5", "6", "7", "8", "9", "+", "/">>
HexDigits ==
    <<"0", "1", "2", "3", "4", "5", "6", "7",
      "8", "9", "a", "b", "c", "d", "e", "f">>

B64Chars == {B64Alphabet[i] : i \in 1..Len(B64Alphabet)}
B64Val(c) == (CHOOSE i \in 1..Len(B64Alphabet) : B64Alphabet[i] = c) - 1

\* binascii.a2b_base64 in its default, non-strict mode, as base64.b64decode
\* calls it.  Characters outside the alphabet are discarded.  A '=' met when
\* the current quad holds q >= 2 characters counts as padding, and the parse
\* ends with success at the first '=' that completes the quad (q + pads >= 4;
\* a character of the alphabet resets pads).  Otherwise the whole text is
\* read, and characters left in an unfinished quad raise binascii.Error.
\* Every second, third and fourth character of a quad yields one byte.
A2bBase64(s) ==
    LET n == Len(s)
        Quad(i) == Cardinality({j \in 1..(i - 1) : s[j] \in B64Chars}) % 4
        LastData(i) ==
            LET ds == {j \in 1..(i - 1) : s[j] \in B64Chars}
            IN IF ds = {} THEN 0 ELSE CHOOSE j \in ds : \A k \in ds : k <= j
        Pads(i) == Cardinality({j \in (LastData(i) + 1)..i : s[j] = "="})
        stops == {i \in 1..n : /\ s[i] = "="
                               /\ Quad(i) >= 2
                               /\ Quad(i) + Pads(i) >= 4}
        end == IF stops = {} THEN n
               ELSE CHOOSE i \in stops : \A j \in stops : i <= j
        data == SelectSeq(SubSeq(s, 1, end), LAMBDA c : c \in B64Chars)
        m == Len(data)
        V(k) == B64Val(data[k])
        count == ((m \div 4) * 3) + (IF m % 4 = 0 THEN 0 ELSE (m % 4) - 1)
        bytes == [k \in 1..count |->
                    LET g == ((k - 1) \div 3) * 4
                        r == (k - 1) % 3
                    IN CASE r = 0 -> (V(g + 1) * 4) + (V(g + 2) \div 16)
                         [] r = 1 -> ((V(g + 2) % 16) * 16) + (V(g + 3) \div 4)
                         [] OTHER -> ((V(g + 3) % 4) * 64) + V(g + 4)]
        ok == stops # {} \/ m % 4 = 0
    IN [ok |-> ok, bytes |-> IF ok THEN bytes ELSE <<>>]

\* base64.b64decode(s): [ok |-> FALSE] stands for the raised binascii.Error
B64Decode(s) == A2bBase64(s)

\* bytes.hex()
Hex(b) ==
    [i \in 1..(2 * Len(b)) |->
        IF i % 2 = 1 THEN HexDigits[(b[(i + 1) \div 2] \div 16) + 1]
                     ELSE HexDigits[(b[i \div 2] % 16) + 1]]

\* The integrity transformation of the flat form: the text after the tag
\* loses every '/', has every '+' turned into '-', loses its '=' and is
\* padded again with '=' to a multiple of four characters.
FlatNormalise(integrity) ==
    LET raw == Remove(Substitute(Remove(DropFirst(integrity, TagLen), "/"),
                                 "+", "-"), "=")
    IN Ljust(raw, ((Len(raw) + 3) \div 4) * 4, "=")

\* --------------------------------------------------------------------- URL
Letters == {B64Alphabet[i] : i \in 1..52}
SchemeChars == {B64Alphabet[i] : i \in 1..62} \cup {"+", "-", "."}

\* s cut before the first occurrence of character c
CutAt(s, c) ==
    LET i == Find(s, {c}, 1) IN IF i = 0 THEN s ELSE SubSeq(s, 1, i - 1)

\* urllib.parse.urlparse(url).path, for URLs without ';' parameters: the
\* scheme and the '//' network location are removed, then the fragment and
\* the query.
UrlPath(url) ==
    LET i == Find(url, {":"}, 1)
        hasScheme == /\ i > 1
                     /\ url[1] \in Letters
                     /\ \A k \in 1..(i - 1) : url[k] \in SchemeChars
        u1 == IF hasScheme THEN DropFirst(url, i) ELSE url
        u2 == IF StartsWith(u1, <<"/", "/">>)
              THEN LET d == Find(u1, {"/", "?", "#"}, 3)
                   IN IF d = 0 THEN <<>> ELSE DropFirst(u1, d - 1)
              ELSE u1
    IN CutAt(CutAt(u2, "#"), "?")

\* ------------------------------------------------------------------ inputs
\* base64.b64encode: the standard encoding the lockfile author used to write
\* an integrity string (alphabet with '+' and '/', '=' padding).
B64Encode(b) ==
    LET n == Len(b)
        At(k) == IF k <= n THEN b[k] ELSE 0
    IN [j \in 1..(4 * ((n + 2) \div 3)) |->
          LET g == ((j - 1) \div 4) * 3
              p == (j - 1) % 4
          IN CASE p = 0 -> B64Alphabet[(At(g + 1) \div 4) + 1]
               [] p = 1 -> B64Alphabet[((At(g + 1) % 4) * 16)
                                       + (At(g + 2) \div 16) + 1]
               [] p = 2 -> IF g + 2 > n THEN "="
                           ELSE B64Alphabet[((At(g + 2) % 16) * 4)
                                            + (At(g + 3) \div 64) + 1]
               [] OTHER -> IF g + 3 > n THEN "="
                           ELSE B64Alphabet[(At(g + 3) % 64) + 1]]

\* Three SHA-512 digests a lockfile may carry: one whose base64 text has only
\* letters and digits, one whose text starts with '+', one with '//'.
PlainDigest == [i \in 1..DigestLen |-> (i % 3) + 1]
PlusDigest == [i \in 1..DigestLen |-> IF i = 1 THEN 248 ELSE 0]
SlashDigest ==
    [i \in 1..DigestLen |-> IF i = 1 THEN 255 ELSE IF i = 2 THEN 240 ELSE 0]
Digests == {PlainDigest, PlusDigest, SlashDigest}

\* 'sha512-' followed by the standard base64 text of digest d
IntegrityOf(d) == Sha512Tag \o B64Encode(d)
\* 'sha512-!!!not-base64!!!'
MalformedIntegrity ==
    Sha512Tag \o <<"!", "!", "!", "n", "o", "t", "-", "b", "a", "s", "e",
                   "6", "4", "!", "!", "!">>
\* 'sha1-AAAA': an integrity string of another algorithm
Sha1Integrity == <<"s", "h", "a", "1", "-", "A", "A", "A", "A">>

\* 'https://x/a.tgz' and 'https://x/b.tgz?r=c/d#e'
UrlA ==
    <<"h", "t", "t", "p", "s", ":", "/", "/", "x", "/", "a", ".", "t", "g", "z">>
UrlB ==
    <<"h", "t", "t", "p", "s", ":", "/", "/", "x", "/", "b", ".", "t", "g", "z",
      "?", "r", "=", "c", "/", "d", "#", "e">>

\* A record of a lockfile mapping: the optional keys 'resolved' and
\* 'integrity'.
Info(hasResolved, resolved, hasIntegrity, integrity) ==
    [hasResolved |-> hasResolved, resolved |-> resolved,
     hasIntegrity |-> hasIntegrity, integrity |-> integrity]

\* The records of a flat-form 'packages' mapping.
FlatInfos ==
    { Info(TRUE, UrlA, TRUE, IntegrityOf(PlainDigest)),
      Info(TRUE, UrlB, FALSE, <<>>),
      Info(TRUE, UrlA, TRUE, Sha512Tag),
      Info(TRUE, UrlA, TRUE, MalformedIntegrity),
      Info(TRUE, UrlA, TRUE, IntegrityOf(PlusDigest)),
      Info(TRUE, UrlB, TRUE, IntegrityOf(SlashDigest)),
      Info(FALSE, <<>>, TRUE, IntegrityOf(PlainDigest)),
      Info(TRUE, <<>>, TRUE, Sha1Integrity) }

\* The keys of a flat-form mapping: '' (the root project),
\* 'node_modules/a', 'node_modules/@s/b', 'node_modules/a/node_modules/b'
\* and 'pkg/c'.
RootKey == <<>>
KeyA == NodeModulesPrefix \o <<"a">>
KeyScoped == NodeModulesPrefix \o <<"@", "s", "/", "b">>
KeyNested == NodeModulesPrefix \o <<"a", "/">> \o NodeModulesPrefix \o <<"b">>
KeyOther == <<"p", "k", "g", "/", "c">>
FlatNames == {RootKey, KeyA, KeyScoped, KeyNested, KeyOther}

\* The entries of a flat-form mapping: every kind of record under the key
\* 'node_modules/a'; under each other key a record with a decodable
\* integrity string and a record without one.
FlatEntries ==
    {[name |-> KeyA, info |-> f] : f \in FlatInfos}
    \cup {[name |-> n, info |-> f] :
            n \in FlatNames \ {KeyA},
            f \in { Info(TRUE, UrlA, TRUE, IntegrityOf(PlainDigest)),
                    Info(TRUE, UrlB, FALSE, <<>>) }}

\* The 'packages' mappings of exactly n entries (keys are unique).
RECURSIVE FlatMaps(_)
FlatMaps(n) ==
    IF n = 0 THEN {<<>>}
    ELSE UNION { { Append(m, e) :
                     e \in {x \in FlatEntries :
                              \A i \in 1..(n - 1) : m[i].name # x.name} } :
                 m \in FlatMaps(n - 1) }

\* The records of a tree-form 'dependencies' mapping, without their nested
\* mapping.
TreeInfos ==
    { Info(TRUE, UrlA, TRUE, IntegrityOf(PlainDigest)),
      Info(TRUE, UrlB, FALSE, <<>>),
      Info(FALSE, <<>>, TRUE, IntegrityOf(PlainDigest)),
      Info(TRUE, <<>>, TRUE, IntegrityOf(PlainDigest)) }

\* A tree-form record: the optional key 'dependencies' holds the nested
\* mapping.
Node(f, sub) ==
    [hasResolved |-> f.hasResolved, resolved |-> f.resolved,
     hasIntegrity |-> f.hasIntegrity, integrity |-> f.integrity,
     hasDependencies |-> sub # <<>>, dependencies |-> sub]

\* The i-th key of a tree-form mapping: 'k', 'kk', 'kkk', ...
TreeKey(i) == [j \in 1..i |-> "k"]

\* The 'dependencies' mappings holding exactly n records, nested ones
\* included; the first record carries k - 1 of them below itself.
RECURSIVE TreeMaps(_)
TreeMaps(n) ==
    IF n = 0 THEN {<<>>}
    ELSE UNION { { <<Node(f, sub)>> \o rest :
                     f \in TreeInfos, sub \in TreeMaps(k - 1),
                     rest \in TreeMaps(n - k) } : k \in 1..n }

Document(hasPackages, packages, hasDependencies, dependencies) ==
    [hasPackages |-> hasPackages, packages |-> packages,
     hasDependencies |-> hasDependencies, dependencies |-> dependencies]

\* The parsed lockfiles: flat form, tree form, both top-level keys at once
\* (lockfileVersion 2 writes both), and neither.
Documents ==
    {Document(TRUE, m, FALSE, <<>>) :
        m \in UNION {FlatMaps(n) : n \in 0..MaxEntries}}
    \cup {Document(FALSE, <<>>, TRUE, t) :
        t \in UNION {TreeMaps(n) : n \in 0..MaxNodes}}
    \cup {Document(TRUE, m, TRUE, t) :
        m \in {<<>>} \cup {<<e>> : e \in FlatEntries},
        t \in {<<>>} \cup {<<Node(f, <<>>)>> : f \in TreeInfos}}
    \cup {Document(FALSE, <<>>, FALSE, <<>>)}

\* What the network answers to one urlopen(url).read(): a failure, or a body
\* whose SHA-512 digest is BodyDigest.
BodyDigest == [i \in 1..DigestLen |-> 255 - i]
Responses == {[ok |-> FALSE, digest |-> <<>>], [ok |-> TRUE, digest |-> BodyDigest]}

\* ------------------------------------------------------------ get_sha512
\* get_sha512(url): the hexdigest of the downloaded body, or None when
\* urlopen raises (a network failure, or the ValueError of an empty URL).
GetSha512(url, resp) ==
    IF url # <<>> /\ resp.ok
    THEN [some |-> TRUE, value |-> Hex(resp.digest)]
    ELSE [some |-> FALSE, value |-> <<>>]

\* Python truth of an optional string: None and '' are false
Truthy(x) == x.some /\ x.value # <<>>

\* info.get('integrity', '')
GetIntegrity(info) == IF info.hasIntegrity THEN info.integrity ELSE <<>>

\* ------------------------------------------------- process_package_lock
\* Strategy with the two tests in the other order.
StrategyTreeFirst(doc) ==
    IF doc.hasDependencies THEN "tree"
    ELSE IF doc.hasPackages THEN "flat"
    ELSE "none"

\* The branch taken on the top-level keys of the document.
Strategy(doc) ==
    IF doc.hasPackages THEN "flat"
    ELSE IF doc.hasDependencies THEN "tree"
    ELSE "none"

\* The source dictionary; 'dest-filename' is written dest_filename.
Source(url, hex, dest) ==
    [type |-> "file", url |-> url, sha512 |-> hex,
     dest_filename |-> NpmCache \o dest]

\* Emit inserting at the front: sources.insert(0, source)
EmitFront(list, x) == <<x>> \o list

\* sources.append(source)
Emit(list, x) == Append(list, x)

\* Flat form: name == "" or not info.get('resolved')
FlatSkips(name, info) ==
    name = <<>> \/ ~info.hasResolved \/ info.resolved = <<>>

\* Flat form, hash resolution: decoded from the integrity string, or
\* downloaded.  kind is "value", "raise" (b64decode raised binascii.Error,
\* which nothing catches) or "continue" (no hash: the entry is left out).
FlatHash(url, integrity, resp) ==
    IF StartsWith(integrity, Sha512Tag)
    THEN LET dec == B64Decode(FlatNormalise(integrity))
         IN IF dec.ok
            THEN [kind |-> "value", value |-> Hex(dec.bytes), fetch |-> FALSE]
            ELSE [kind |-> "raise", value |-> <<>>, fetch |-> FALSE]
    ELSE LET got == GetSha512(url, resp)
         IN IF Truthy(got)
            THEN [kind |-> "value", value |-> got.value, fetch |-> TRUE]
            ELSE [kind |-> "continue", value |-> <<>>, fetch |-> TRUE]

\* Flat form, destination filename.
FlatDest(name, url) ==
    IF StartsWith(name, NodeModulesPrefix)
    THEN DropFirst(name, PrefixLen)
    ELSE LastSegment(UrlPath(url))

\* One iteration of the flat-form loop over entry e, the network answering
\* resp if asked.
FlatOutcome(e, resp) ==
    IF FlatSkips(e.name, e.info)
    THEN [kind |-> "skip", fetch |-> FALSE, source |-> <<>>]
    ELSE LET url == e.info.resolved
             h == FlatHash(url, GetIntegrity(e.info), resp)
         IN IF h.kind = "value"
            THEN [kind |-> "emit", fetch |-> h.fetch,
                  source |-> Source(url, h.value, FlatDest(e.name, url))]
            ELSE [kind |-> IF h.kind = "raise" THEN "raise" ELSE "drop",
                  fetch |-> h.fetch, source |-> <<>>]

\* Tree form, hash resolution: the text after the tag as it stands, or
\* downloaded.
TreeHash(url, integrity, resp) ==
    IF StartsWith(integrity, Sha512Tag)
    THEN [kind |-> "value", value |-> DropFirst(integrity, TagLen),
          fetch |-> FALSE]
    ELSE LET got == GetSha512(url, resp)
         IN IF Truthy(got)
            THEN [kind |-> "value", value |-> got.value, fetch |-> TRUE]
            ELSE [kind |-> "continue", value |-> <<>>, fetch |-> TRUE]

\* Tree form, destination filename: url.split('/')[-1]
TreeDest(url) == LastSegment(url)

\* One iteration of process_deps over record info (every value of the
\* mapping is a JSON object), the network answering resp if asked.
TreeOutcome(info, resp) ==
    IF ~info.hasResolved
    THEN [kind |-> "skip", fetch |-> FALSE, source |-> <<>>]
    ELSE LET url == info.resolved
             h == TreeHash(url, GetIntegrity(info), resp)
         IN IF h.kind = "value"
            THEN [kind |-> "emit", fetch |-> h.fetch,
                  source |-> Source(url, h.value, TreeDest(url))]
            ELSE [kind |-> "drop", fetch |-> h.fetch, source |-> <<>>]

\* An activation of process_deps(deps, prefix): i is the position of the
\* loop in deps, path the positions of the enclosing records.
Frame(deps, prefix, path) ==
    [deps |-> deps, i |-> 1, prefix |-> prefix, path |-> path]

\* Activations whose loop is over return to their caller.
RECURSIVE Unwind(_)
Unwind(st) ==
    IF st = <<>> THEN st
    ELSE IF Head(st).i > Len(Head(st).deps) THEN Unwind(Tail(st))
    ELSE st

\* The loop of the running activation moves to its next record.
Advance(st) == <<[Head(st) EXCEPT !.i = @ + 1]>> \o Tail(st)

\* After a record was appended: process_deps(info['dependencies'],
\* f"{prefix}{name}/") when the record has the key, before the loop goes on.
Descend(st, info) ==
    LET f == Head(st)
    IN IF info.hasDependencies
       THEN <<Frame(info.dependencies,
                    f.prefix \o TreeKey(f.i) \o <<"/">>,
                    Append(f.path, f.i))>> \o Advance(st)
       ELSE Advance(st)

\* ------------------------------------------------------------------- state
VARIABLES
    data,        \* the parsed lockfile (json.load)
    pc,          \* "main", "flat", "tree", "none", "done" or "crashed"
    idx,         \* flat form: position of the loop in data['packages']
    stack,       \* tree form: the activations of process_deps, innermost first
    sources,     \* the list process_package_lock builds
    origin,      \* history: for each element of sources, the position of the
                 \* entry it was made for (<<i>> flat, the path <<i, j, ..>> tree)
    log,         \* history: the entries visited so far, each with what became
                 \* of it and whether the network was asked
    output,      \* the output file
    exitStatus   \* <<>> while running, then <<status>>

vars == <<data, pc, idx, stack, sources, origin, log, output, exitStatus>>

Event(form, id, o) ==
    [form |-> form, id |-> id, kind |-> o.kind, fetch |-> o.fetch]

Init ==
    /\ data \in Documents
    /\ pc = "main"
    /\ idx = 1
    /\ stack = <<>>
    /\ sources = <<>>
    /\ origin = <<>>
    /\ log = <<>>
    /\ output = [written |-> FALSE, content |-> <<>>]
    /\ exitStatus = <<>>

\* main calls process_package_lock, which takes one of its branches.
MainStart ==
    /\ pc = "main"
    /\ pc' = Strategy(data)
    /\ stack' = IF Strategy(data) = "tree"
                THEN Unwind(<<Frame(data.dependencies, <<>>, <<>>)>>)
                ELSE <<>>
    /\ UNCHANGED <<data, idx, sources, origin, log, output, exitStatus>>

FlatPending == pc = "flat" /\ idx <= Len(data.packages)

\* Flat form: the root entry or an entry without a resolved URL is passed.
FlatSkip ==
    /\ FlatPending
    /\ \E resp \in Responses :
         LET o == FlatOutcome(data.packages[idx], resp) IN
         /\ o.kind = "skip"
         /\ log' = Append(log, Event("flat", <<idx>>, o))
    /\ idx' = idx + 1
    /\ UNCHANGED <<data, pc, stack, sources, origin, output, exitStatus>>

\* Flat form: the download failed, the entry is left out.
FlatDrop ==
    /\ FlatPending
    /\ \E resp \in Responses :
         LET o == FlatOutcome(data.packages[idx], resp) IN
         /\ o.kind = "drop"
         /\ log' = Append(log, Event("flat", <<idx>>, o))
    /\ idx' = idx + 1
    /\ UNCHANGED <<data, pc, stack, sources, origin, output, exitStatus>>

\* Flat form: a source is appended.
FlatEmit ==
    /\ FlatPending
    /\ \E resp \in Responses :
         LET o == FlatOutcome(data.packages[idx], resp) IN
         /\ o.kind = "emit"
         /\ sources' = Emit(sources, o.source)
         /\ origin' = Emit(origin, <<idx>>)
         /\ log' = Append(log, Event("flat", <<idx>>, o))
    /\ idx' = idx + 1
    /\ UNCHANGED <<data, pc, stack, output, exitStatus>>

\* Flat form: b64decode raises, the exception leaves process_package_lock
\* and main, and the interpreter exits with status 1 and writes nothing.
FlatRaise ==
    /\ FlatPending
    /\ \E resp \in Responses :
         LET o == FlatOutcome(data.packages[idx], resp) IN
         /\ o.kind = "raise"
         /\ log' = Append(log, Event("flat", <<idx>>, o))
    /\ pc' = "crashed"
    /\ exitStatus' = <<1>>
    /\ UNCHANGED <<data, idx, stack, sources, origin, output>>

TreePending == pc = "tree" /\ stack # <<>>

TreeNow == Head(stack).deps[Head(stack).i]
TreeId == Append(Head(stack).path, Head(stack).i)

\* Tree form: a record without the key 'resolved' is passed, its nested
\* mapping with it.
TreeSkip ==
    /\ TreePending
    /\ \E resp \in Responses :
         LET o == TreeOutcome(TreeNow, resp) IN
         /\ o.kind = "skip"
         /\ log' = Append(log, Event("tree", TreeId, o))
    /\ stack' = Unwind(Advance(stack))
    /\ UNCHANGED <<data, pc, idx, sources, origin, output, exitStatus>>

\* Tree form: the download failed; `continue` leaves the record out and
\* goes to the next record of the same mapping.
TreeDrop ==
    /\ TreePending
    /\ \E resp \in Responses :
         LET o == TreeOutcome(TreeNow, resp) IN
         /\ o.kind = "drop"
         /\ log' = Append(log, Event("tree", TreeId, o))
    /\ stack' = Unwind(Advance(stack))
    /\ UNCHANGED <<data, pc, idx, sources, origin, output, exitStatus>>

\* Tree form: a source is appended, then the nested mapping is entered.
TreeEmit ==
    /\ TreePending
    /\ \E resp \in Responses :
         LET o == TreeOutcome(TreeNow, resp) IN
         /\ o.kind = "emit"
         /\ sources' = Emit(sources, o.source)
         /\ origin' = Emit(origin, TreeId)
         /\ log' = Append(log, Event("tree", TreeId, o))
    /\ stack' = Unwind(Descend(stack, TreeNow))
    /\ UNCHANGED <<data, pc, idx, output, exitStatus>>

\* process_package_lock returns; main writes the list and exits with 0.
MainWrite ==
    /\ \/ pc = "flat" /\ idx > Len(data.packages)
       \/ pc = "tree" /\ stack = <<>>
       \/ pc = "none"
    /\ output' = [written |-> TRUE, content |-> sources]
    /\ exitStatus' = <<0>>
    /\ pc' = "done"
    /\ UNCHANGED <<data, idx, stack, sources, origin, log>>

Next ==
    \/ MainStart
    \/ FlatSkip
    \/ FlatDrop
    \/ FlatEmit
    \/ FlatRaise
    \/ TreeSkip
    \/ TreeDrop
    \/ TreeEmit
    \/ MainWrite

Spec == Init /\ [][Next]_vars

\* ------------------------------------------------- vocabulary of the claims
Finished == pc = "done"

IsFlatRun == data.hasPackages
IsTreeRun == ~data.hasPackages /\ data.hasDependencies

\* The record of a tree-form document at a path of positions.
RECURSIVE NodeAt(_, _)
NodeAt(deps, path) ==
    IF Len(path) = 1 THEN deps[path[1]]
    ELSE NodeAt(deps[path[1]].dependencies, Tail(path))

\* The paths of all the records of a tree-form mapping, nested ones included.
RECURSIVE TreePaths(_, _)
TreePaths(deps, pre) ==
    UNION { {Append(pre, i)} \cup TreePaths(deps[i].dependencies, Append(pre, i)) :
            i \in 1..Len(deps) }

\* The positions of all the entries of the traversed mapping.
AllIds ==
    IF IsFlatRun THEN {<<i>> : i \in 1..Len(data.packages)}
    ELSE IF IsTreeRun THEN TreePaths(data.dependencies, <<>>)
    ELSE {}

\* The lockfile record at a position of the traversed mapping.
InfoAt(id) ==
    IF IsFlatRun THEN data.packages[id[1]].info
    ELSE NodeAt(data.dependencies, id)

\* The record has a resolved URL: the key is there and its value is not ''.
HasUrl(info) == info.hasResolved /\ info.resolved # <<>>

\* The flat-form root entry.
IsRoot(id) == IsFlatRun /\ data.packages[id[1]].name = RootKey

\* The entries that have a resolved URL, the flat-form root excluded.
ResolvableIds == {id \in AllIds : HasUrl(InfoAt(id)) /\ ~IsRoot(id)}

\* The entries visited so far, and those among them left out because their
\* download failed.
VisitedIds == {log[k].id : k \in 1..Len(log)}
DroppedIds == {log[k].id : k \in {j \in 1..Len(log) : log[j].kind = "drop"}}
OriginIds == {origin[k] : k \in 1..Len(origin)}

\* bytes.fromhex
HexVal(c) == (CHOOSE i \in 1..Len(HexDigits) : HexDigits[i] = c) - 1
FromHex(h) ==
    [k \in 1..(Len(h) \div 2) |-> (HexVal(h[(2 * k) - 1]) * 16) + HexVal(h[2 * k])]

\* s is an initial part of t
IsPrefix(s, t) == Len(s) <= Len(t) /\ SubSeq(t, 1, Len(s)) = s

\* Position a comes before position b in the traversal of the document:
\* document order in a mapping, a record before its nested records, these
\* before the record's following siblings (pre-order).
Precedes(a, b) ==
    \/ Len(a) < Len(b) /\ SubSeq(b, 1, Len(a)) = a
    \/ \E k \in 1..Len(a) :
         /\ k <= Len(b)
         /\ SubSeq(a, 1, k - 1) = SubSeq(b, 1, k - 1)
         /\ a[k] < b[k]

\* ------------------------------------------------------------------ claims

\* C1: every record of the list has a non-empty url and a non-empty sha512
\* value, whatever the document and the outcomes of the downloads.
C1_NonEmptyUrlAndHash ==
    \A k \in 1..Len(sources) :
        sources[k].url # <<>> /\ sources[k].sha512 # <<>>

\* The remainder of a 'sha512-' integrity string cannot be base64-decoded.
Undecodable(info) ==
    /\ StartsWith(GetIntegrity(info), Sha512Tag)
    /\ ~B64Decode(DropFirst(GetIntegrity(info), TagLen)).ok

\* C2: a flat-form entry whose 'sha512-' integrity string cannot be
\* base64-decoded is dropped and nothing else: the traversal goes on and the
\* run does not terminate with an error.
C2_UndecodableEntryOnlyDropped ==
    \A k \in 1..Len(log) :
        (log[k].form = "flat" /\ Undecodable(InfoAt(log[k].id))
            /\ ~FlatSkips(data.packages[log[k].id[1]].name, InfoAt(log[k].id)))
        => (log[k].kind = "drop" /\ pc # "crashed" /\ exitStatus # <<1>>)

\* C3: at the end of a run the length of the list is the number of
\* resolvable entries minus the number of entries dropped by a failed
\* download, and no dropped entry is in the list.
C3_LengthIsResolvableMinusDropped ==
    Finished =>
        /\ Len(output.content)
             = Cardinality(ResolvableIds) - Cardinality(DroppedIds)
        /\ DroppedIds \cap OriginIds = {}

\* C4: flat form: the sha512 value of an entry whose integrity string is
\* 'sha512-' and the standard base64 text of a 64-byte digest is the
\* lowercase hex of that digest, and encoding it again gives the text back.
C4_FlatHashIsHexOfDigest ==
    IsFlatRun =>
        \A k \in 1..Len(sources) : \A d \in Digests :
            InfoAt(origin[k]).hasIntegrity
              /\ InfoAt(origin[k]).integrity = IntegrityOf(d)
            => /\ sources[k].sha512 = Hex(d)
               /\ B64Encode(FromHex(sources[k].sha512))
                    = DropFirst(InfoAt(origin[k]).integrity, TagLen)

\* C5: tree form: the sha512 value of a record whose integrity string
\* starts with 'sha512-' is the one the flat form gives for the same URL and
\* integrity string, the hex of the decoded bytes, never the base64 text.
C5_TreeHashEqualsFlatHash ==
    IsTreeRun =>
        \A k \in 1..Len(sources) : \A resp \in Responses :
            LET info == InfoAt(origin[k])
                text == GetIntegrity(info)
            IN (HasUrl(info) /\ StartsWith(text, Sha512Tag)) =>
                 /\ sources[k].sha512
                      = FlatHash(info.resolved, text, resp).value
                 /\ sources[k].sha512 = Hex(B64Decode(DropFirst(text, TagLen)).bytes)
                 /\ sources[k].sha512 # DropFirst(text, TagLen)

\* C6: no record of the list was made for an entry without a resolved URL
\* (key missing or value ''), nor for the flat-form root entry.
C6_NoRecordWithoutResolvedUrl ==
    \A k \in 1..Len(origin) :
        HasUrl(InfoAt(origin[k])) /\ ~IsRoot(origin[k])

\* C7: tree form: at the end of a run every record of the document was
\* visited, also those nested in a record that has no resolved URL or was
\* dropped, and each of them that has a resolved URL and was not dropped
\* itself is in the list.
C7_NestedAlwaysTraversed ==
    (Finished /\ IsTreeRun) =>
        /\ VisitedIds = AllIds
        /\ ResolvableIds \ DroppedIds \subseteq OriginIds

\* C8: with 'packages' only the flat-form traversal runs, and every record
\* of the list comes from an entry of 'packages'; without 'packages' and with
\* 'dependencies' only the tree-form traversal runs; with neither key the
\* run visits nothing, asks the network nothing, and ends normally with the
\* empty list.
C8_StrategyByTopLevelKeys ==
    /\ data.hasPackages =>
         /\ pc # "tree" /\ stack = <<>>
         /\ \A k \in 1..Len(log) :
              /\ log[k].form = "flat"
              /\ Len(log[k].id) = 1
              /\ log[k].id[1] \in 1..Len(data.packages)
         /\ \A k \in 1..Len(sources) :
              /\ origin[k][1] \in 1..Len(data.packages)
              /\ sources[k].url = data.packages[origin[k][1]].info.resolved
    /\ IsTreeRun =>
         /\ pc # "flat"
         /\ \A k \in 1..Len(log) :
              log[k].form = "tree" /\ log[k].id \in AllIds
    /\ (~data.hasPackages /\ ~data.hasDependencies) =>
         /\ log = <<>> /\ sources = <<>>
         /\ pc \in {"main", "none", "done"}
         /\ Finished => output.content = <<>> /\ exitStatus = <<0>>
    /\ Finished => (VisitedIds = {} <=> AllIds = {})

\* Both top-level keys, each mapping with a resolvable entry: the run ended
\* with the one record of 'packages'.
C8_Witness ==
    /\ Finished
    /\ data.hasPackages /\ data.hasDependencies
    /\ Len(data.dependencies) = 1 /\ HasUrl(data.dependencies[1])
    /\ Len(sources) = 1

\* The list in one state is made for the entries visited so far, in their
\* traversal order.
C9_Ordered ==
    /\ Len(origin) = Len(sources)
    /\ \A i, j \in 1..Len(log) : i < j => Precedes(log[i].id, log[j].id)
    /\ origin = [k \in 1..Len(origin) |->
                   SelectSeq(log, LAMBDA e : e.kind = "emit")[k].id]
    /\ \A i, j \in 1..Len(origin) : i < j <=> Precedes(origin[i], origin[j])
    /\ \A k \in 1..Len(sources) :
         sources[k].url = InfoAt(origin[k]).resolved

\* C9: the records of the list are in the traversal order of the document
\* (flat: the order of 'packages'; tree: pre-order), a dropped entry leaves
\* the order of the others as it is, and a step only appends to the list:
\* what was in it stays, in its place, unmodified.
C9_TraversalOrderAppendOnly ==
    /\ []C9_Ordered
    /\ [][IsPrefix(sources, sources') /\ Len(sources') <= Len(sources) + 1]_vars

\* Tree form: the first record was appended, its nested record dropped, the
\* second top-level record appended after it.
C9_Witness ==
    /\ Finished /\ IsTreeRun
    /\ origin = << <<1>>, <<2>> >>
    /\ DroppedIds = { <<1, 1>> }
    /\ output.content = sources

\* C10: the dest-filename is 'npm-cache/' and: the key without its leading
\* 'node_modules/' for a flat-form entry whose key starts with it; else, and
\* for every tree-form record, the last segment of the path of the URL, the
\* query string and the fragment not being part of the path.
C10_DestFilename ==
    \A k \in 1..Len(sources) :
        LET url == sources[k].url
            name == IF IsFlatRun THEN data.packages[origin[k][1]].name ELSE <<>>
        IN sources[k].dest_filename =
             NpmCache \o
               (IF IsFlatRun /\ StartsWith(name, NodeModulesPrefix)
                THEN DropFirst(name, PrefixLen)
                ELSE LastSegment(UrlPath(url)))

====
